---- MODULE Spec2Model ----
(***************************************************************************)
(* Model of main.py: the Gmail OAuth callback, the token lifecycle manager *)
(* (refresh_gmail_token), the mail dispatch client (send_gmail_message)    *)
(* behind /gmail/send, and the email webhook (process_email).              *)
(*                                                                         *)
(* Every request is handled by a handler slot of Calls; a handler is cut   *)
(* at its I/O boundaries (store read, clock read, provider POST, store     *)
(* insert), so that concurrent requests interleave as the host's request   *)
(* concurrency allows.  The clock is counted in ticks, TicksPerSecond      *)
(* ticks to the second, so that time.time() (a float) and int(time.time()) *)
(* differ.                                                                 *)
(***************************************************************************)
EXTENDS Integers, FiniteSets, Sequences, TLC

\* ---------------------------------------------------------------- bounds
TicksPerSecond == 2
MaxNow == 4
MaxExpiresIn == 1
MaxIssued == 2
MaxLogs == 2

\* ------------------------------------------------------------- constants
Calls == {"h1", "h2"}

\* line 116: user_email = "prod.tkmusic@gmail.com"
CallbackUserEmail == "prod.tkmusic@gmail.com"
OtherUserEmail == "other@example.com"
UserEmails == {CallbackUserEmail, OtherUserEmail}

IssuedRefreshToken == "R1"
RotatedRefreshToken == "R2"
ExpiresInValues == 1..MaxExpiresIn
GmailScope == "https://www.googleapis.com/auth/gmail.send"

\* line 252
FallbackReply == "There was an error generating a reply."
GeneratedReply == "Thank you for your email."

Null == [null |-> TRUE]
NoInsertion == [kind |-> "none"]

VARIABLES
    gmail_tokens,   \* table "gmail_tokens": a set of rows
    email_logs,     \* table "email_logs": rows in insertion order
    now,            \* time.time(), in ticks
    issued,         \* number of access tokens the identity provider has issued
    pc,             \* pc[c]: position of handler c
    frame,          \* frame[c]: the locals of handler c
    lastIns         \* lastIns[u]: the last insertion into gmail_tokens for u

vars == <<gmail_tokens, email_logs, now, issued, pc, frame, lastIns>>

\* ------------------------------------------------------------ pure parts

\* int(time.time()), lines 113 and 162
IntTime(t) == t \div TicksPerSecond

ExpiresAtNoLifetime(t, expires_in) == IntTime(t)
\* lines 113 and 162: int(time.time()) + int(expires_in)
ExpiresAt(t, expires_in) == IntTime(t) + expires_in

StillValidInclusive(record, t) == record.expires_at * TicksPerSecond >= t
\* line 141: record["expires_at"] > time.time()
StillValid(record, t) == record.expires_at * TicksPerSecond > t

RowsOf(store, user_email) == {r \in store : r.user_email = user_email}

LatestOldest(store, user_email) ==
    CHOOSE r \in RowsOf(store, user_email) :
        \A q \in RowsOf(store, user_email) : r.created_at <= q.created_at
\* line 133: .eq("user_email", user_email).order("created_at", desc=True).limit(1)
Latest(store, user_email) ==
    CHOOSE r \in RowsOf(store, user_email) :
        \A q \in RowsOf(store, user_email) : q.created_at <= r.created_at

MaxOf(S) == CHOOSE m \in S : \A x \in S : x <= m

\* created_at is assigned by the store on insertion and grows with every row
NextCreatedAt(store) == 1 + MaxOf({r.created_at : r \in store} \cup {0})

InsertTokenUpsert(store, row) ==
    {r \in store : r.user_email # row.user_email}
        \cup {[row EXCEPT !.created_at = NextCreatedAt(store)]}
\* lines 118-125 and 165-172: supabase.table("gmail_tokens").insert({...}).execute()
InsertToken(store, row) ==
    store \cup {[row EXCEPT !.created_at = NextCreatedAt(store)]}

HasAccessToken(resp) == "access_token" \in DOMAIN resp

Returned(value) == [kind |-> "return", value |-> value]

HTTPExceptionNoDetail(status_code, detail) ==
    [kind |-> "raise", status_code |-> status_code, detail |-> Null]
\* raise HTTPException(status_code=..., detail=...)
HTTPException(status_code, detail) ==
    [kind |-> "raise", status_code |-> status_code, detail |-> detail]

CallbackRowLifetimeOnly(tokens, expires_at) ==
    [user_email    |-> CallbackUserEmail,
     access_token  |-> tokens.access_token,
     refresh_token |-> tokens.refresh_token,
     token_type    |-> tokens.token_type,
     scope         |-> tokens.scope,
     expires_at    |-> tokens.expires_in,
     created_at    |-> 0]
\* lines 118-124: the row the callback inserts
CallbackRow(tokens, expires_at) ==
    [user_email    |-> CallbackUserEmail,
     access_token  |-> tokens.access_token,
     refresh_token |-> tokens.refresh_token,
     token_type    |-> tokens.token_type,
     scope         |-> tokens.scope,
     expires_at    |-> expires_at,
     created_at    |-> 0]

RefreshRowStaleAccess(user_email, record, new_access, expires_at) ==
    [user_email    |-> user_email,
     access_token  |-> record.access_token,
     refresh_token |-> record.refresh_token,
     token_type    |-> record.token_type,
     scope         |-> record.scope,
     expires_at    |-> expires_at,
     created_at    |-> 0]
\* lines 165-171: the row a refresh inserts
RefreshRow(user_email, record, new_access, expires_at) ==
    [user_email    |-> user_email,
     access_token  |-> new_access,
     refresh_token |-> record.refresh_token,
     token_type    |-> record.token_type,
     scope         |-> record.scope,
     expires_at    |-> expires_at,
     created_at    |-> 0]

\* lines 197-200: the outcome of send_gmail_message for the provider's response
SendResult(response) ==
    IF response.status_code # 200
    THEN HTTPException(500, response.json)
    ELSE Returned(response.json)

\* lines 247 and 252: the completion's text, or the fallback when it raised
GeneratedOrFallback(ok) == IF ok THEN GeneratedReply ELSE FallbackReply

\* lines 255-263: the row the webhook logs
LogRow(payload, ai_reply, status) ==
    [inbox_id |-> payload.inbox_id, sender |-> payload.sender,
     subject |-> payload.subject, body |-> payload.body,
     ai_reply |-> ai_reply, confidence |-> "0.8", status |-> status]

InsertLogUnlessFallback(logs, row) ==
    IF row.ai_reply = FallbackReply THEN logs ELSE Append(logs, row)
\* lines 255-263: supabase.table("email_logs").insert({...}).execute()
InsertLog(logs, row) == Append(logs, row)

\* ------------------------------------------------- what the providers say

\* the identity provider's answers to the authorization-code exchange; it
\* issues at most MaxIssued access tokens, numbered as they are issued
CodeResponses(at) ==
    {[error |-> "invalid_grant"]}
    \cup {[access_token |-> at, refresh_token |-> IssuedRefreshToken,
           token_type |-> "Bearer", scope |-> GmailScope, expires_in |-> d] :
              d \in IF at <= MaxIssued THEN ExpiresInValues ELSE {}}

\* the identity provider's answers to the refresh exchange; the provider may
\* rotate the refresh token
RefreshResponses(at) ==
    {[error |-> "invalid_grant"]}
    \cup {[access_token |-> at, token_type |-> "Bearer",
           scope |-> GmailScope, expires_in |-> d] :
              d \in IF at <= MaxIssued THEN ExpiresInValues ELSE {}}
    \cup {[access_token |-> at, refresh_token |-> RotatedRefreshToken,
           token_type |-> "Bearer", scope |-> GmailScope, expires_in |-> d] :
              d \in IF at <= MaxIssued THEN ExpiresInValues ELSE {}}

\* the mail provider's answers to messages/send
MailResponses ==
    {[status_code |-> 200, json |-> [id |-> "m1"]],
     [status_code |-> 201, json |-> [id |-> "m1"]],
     [status_code |-> 401, json |-> [error |-> "UNAUTHENTICATED"]]}

EmailPayloads ==
    {[inbox_id |-> "inbox1", sender |-> "a@x.com", subject |-> "Hi", body |-> "Hello"],
     [inbox_id |-> "inbox1", sender |-> "b@x.com", subject |-> "Re", body |-> "Thanks"]}

\* ------------------------------------------------------------------ state

EmptyFrame ==
    [op          |-> "none",
     user_email  |-> "",
     record      |-> Null,   \* line 138
     data        |-> Null,   \* the form posted to the token endpoint
     new_tokens  |-> Null,   \* response.json() of the token endpoint
     t           |-> -1,     \* the clock read of line 113 / 162
     expires_at  |-> -1,
     access_token |-> -1,    \* what refresh_gmail_token returned (line 180)
     response    |-> Null,   \* the mail provider's response (line 194)
     payload     |-> Null,   \* the webhook's payload
     generated   |-> "",     \* "ok" / "failed": how the completion call ended
     ai_reply    |-> "",
     status      |-> "",
     result      |-> Null,   \* what the handler returned or raised
     pre         |-> {}]     \* gmail_tokens when the handler started

\* The table outlives the process.  A row of another mailbox owner, long
\* expired, is in it when the service starts (refresh_gmail_token serves any
\* user_email); the callback itself only ever writes CallbackUserEmail.
SeedRow ==
    [user_email |-> OtherUserEmail, access_token |-> 0, refresh_token |-> IssuedRefreshToken,
     token_type |-> "Bearer", scope |-> GmailScope, expires_at |-> 0,
     created_at |-> 1]

Init ==
    /\ gmail_tokens = {SeedRow}
    /\ email_logs = <<>>
    /\ now = 0
    /\ issued = 0
    /\ pc = [c \in Calls |-> "idle"]
    /\ frame = [c \in Calls |-> EmptyFrame]
    /\ lastIns = [u \in UserEmails |-> NoInsertion]

\* a request is taken by the first idle handler slot
Takes(c) == pc[c] = "idle" /\ (c = "h1" \/ pc["h1"] # "idle")

Goto(c, label) == pc' = [pc EXCEPT ![c] = label]
SetFrame(c, f) == frame' = [frame EXCEPT ![c] = f]

\* ------------------------------------------------------------- the clock
Tick ==
    /\ now < MaxNow
    /\ now' = now + 1
    /\ UNCHANGED <<gmail_tokens, email_logs, issued, pc, frame, lastIns>>

\* --------------------------------------- gmail_callback, lines 87 to 127
CallbackStart(c) ==
    /\ Takes(c)
    /\ SetFrame(c, [EmptyFrame EXCEPT !.op = "callback",
                                      !.user_email = CallbackUserEmail,
                                      !.pre = gmail_tokens])
    /\ Goto(c, "cb_post")
    /\ UNCHANGED <<gmail_tokens, email_logs, now, issued, lastIns>>

\* lines 90-105: the code exchange and the test for access_token
CallbackExchange(c) ==
    /\ pc[c] = "cb_post"
    /\ \E tokens \in CodeResponses(issued + 1) :
          LET f == [frame[c] EXCEPT
                       !.data = [grant_type |-> "authorization_code"],
                       !.new_tokens = tokens]
          IN IF ~HasAccessToken(tokens)
             THEN /\ SetFrame(c, [f EXCEPT !.result = HTTPException(400, tokens)])
                  /\ Goto(c, "done")
                  /\ UNCHANGED issued
             ELSE /\ SetFrame(c, f)
                  /\ Goto(c, "cb_time")
                  /\ issued' = issued + 1
    /\ UNCHANGED <<gmail_tokens, email_logs, now, lastIns>>

\* lines 108-113: extract the values and compute expires_at
CallbackExpiry(c) ==
    /\ pc[c] = "cb_time"
    /\ SetFrame(c, [frame[c] EXCEPT
          !.access_token = frame[c].new_tokens.access_token,
          !.t = now,
          !.expires_at = ExpiresAt(now, frame[c].new_tokens.expires_in)])
    /\ Goto(c, "cb_insert")
    /\ UNCHANGED <<gmail_tokens, email_logs, now, issued, lastIns>>

\* lines 116-127: insert the row and acknowledge
CallbackInsert(c) ==
    /\ pc[c] = "cb_insert"
    /\ LET row == CallbackRow(frame[c].new_tokens, frame[c].expires_at)
           stored == [row EXCEPT !.created_at = NextCreatedAt(gmail_tokens)]
       IN /\ gmail_tokens' = InsertToken(gmail_tokens, row)
          /\ lastIns' = [lastIns EXCEPT ![CallbackUserEmail] =
                            [kind |-> "callback", row |-> stored,
                             t |-> frame[c].t,
                             d |-> frame[c].new_tokens.expires_in]]
          /\ SetFrame(c, [frame[c] EXCEPT
                !.result = Returned([status |-> "saved",
                                     email |-> CallbackUserEmail])])
    /\ Goto(c, "done")
    /\ UNCHANGED <<email_logs, now, issued>>

\* ------------------- gmail_send -> send_gmail_message -> refresh_gmail_token
\* lines 204-211 and 178-180: the endpoint calls send_gmail_message, which
\* starts with refresh_gmail_token(user_email)
SendStart(c, user_email) ==
    /\ Takes(c)
    /\ SetFrame(c, [EmptyFrame EXCEPT !.op = "send",
                                      !.user_email = user_email,
                                      !.pre = gmail_tokens])
    /\ Goto(c, "r_select")
    /\ UNCHANGED <<gmail_tokens, email_logs, now, issued, lastIns>>

\* lines 133-138: read the latest row, 404 when there is none
RefreshSelect(c) ==
    /\ pc[c] = "r_select"
    /\ LET u == frame[c].user_email
       IN IF RowsOf(gmail_tokens, u) = {}
          THEN /\ SetFrame(c, [frame[c] EXCEPT !.result =
                      HTTPException(404, "User has no stored Gmail tokens")])
               /\ Goto(c, "done")
          ELSE /\ SetFrame(c, [frame[c] EXCEPT
                      !.record = Latest(gmail_tokens, u)])
               /\ Goto(c, "r_check")
    /\ UNCHANGED <<gmail_tokens, email_logs, now, issued, lastIns>>

\* lines 141-142: return the stored token when it is still valid
RefreshCheck(c) ==
    /\ pc[c] = "r_check"
    /\ IF StillValid(frame[c].record, now)
       THEN /\ SetFrame(c, [frame[c] EXCEPT
                   !.access_token = frame[c].record.access_token])
            /\ Goto(c, "s_post")
       ELSE /\ UNCHANGED frame
            /\ Goto(c, "r_post")
    /\ UNCHANGED <<gmail_tokens, email_logs, now, issued, lastIns>>

\* lines 146-159: the refresh exchange and the test for access_token
RefreshExchange(c) ==
    /\ pc[c] = "r_post"
    /\ \E new_tokens \in RefreshResponses(issued + 1) :
          LET f == [frame[c] EXCEPT
                       !.data = [refresh_token |-> frame[c].record.refresh_token,
                                 grant_type |-> "refresh_token"],
                       !.new_tokens = new_tokens]
          IN IF ~HasAccessToken(new_tokens)
             THEN /\ SetFrame(c, [f EXCEPT !.result = HTTPException(400, new_tokens)])
                  /\ Goto(c, "done")
                  /\ UNCHANGED issued
             ELSE /\ SetFrame(c, f)
                  /\ Goto(c, "r_time")
                  /\ issued' = issued + 1
    /\ UNCHANGED <<gmail_tokens, email_logs, now, lastIns>>

\* lines 161-162: the new token and its expiry
RefreshExpiry(c) ==
    /\ pc[c] = "r_time"
    /\ SetFrame(c, [frame[c] EXCEPT
          !.t = now,
          !.expires_at = ExpiresAt(now, frame[c].new_tokens.expires_in)])
    /\ Goto(c, "r_insert")
    /\ UNCHANGED <<gmail_tokens, email_logs, now, issued, lastIns>>

\* lines 164-174: insert the new row and return the new access token
RefreshInsert(c) ==
    /\ pc[c] = "r_insert"
    /\ LET u == frame[c].user_email
           row == RefreshRow(u, frame[c].record,
                             frame[c].new_tokens.access_token, frame[c].expires_at)
           stored == [row EXCEPT !.created_at = NextCreatedAt(gmail_tokens)]
       IN /\ gmail_tokens' = InsertToken(gmail_tokens, row)
          /\ lastIns' = [lastIns EXCEPT ![u] =
                            [kind |-> "refresh", row |-> stored,
                             t |-> frame[c].t,
                             d |-> frame[c].new_tokens.expires_in]]
          /\ SetFrame(c, [frame[c] EXCEPT
                !.access_token = frame[c].new_tokens.access_token])
    /\ Goto(c, "s_post")
    /\ UNCHANGED <<email_logs, now, issued>>

\* lines 182-200 and 212: post the message and judge the response
SendPost(c) ==
    /\ pc[c] = "s_post"
    /\ \E response \in MailResponses :
          LET sent == SendResult(response)
          IN SetFrame(c, [frame[c] EXCEPT
                !.response = response,
                !.result = IF sent.kind = "raise" THEN sent
                           ELSE Returned([status |-> "sent",
                                          response |-> sent.value])])
    /\ Goto(c, "done")
    /\ UNCHANGED <<gmail_tokens, email_logs, now, issued, lastIns>>

\* the handler's response has gone out; the slot takes the next request
Finish(c) ==
    /\ pc[c] = "done"
    /\ SetFrame(c, EmptyFrame)
    /\ Goto(c, "idle")
    /\ UNCHANGED <<gmail_tokens, email_logs, now, issued, lastIns>>

\* ----------------------------------------- process_email, lines 216 to 265
EmailStart(c, payload) ==
    /\ Takes(c)
    /\ Len(email_logs) + Cardinality({h \in Calls : frame[h].op = "email"}) < MaxLogs
    /\ SetFrame(c, [EmptyFrame EXCEPT !.op = "email", !.payload = payload])
    /\ Goto(c, "e_generate")
    /\ UNCHANGED <<gmail_tokens, email_logs, now, issued, lastIns>>

\* lines 237-253: the completion call, or the fallback when it raises
EmailGenerate(c) ==
    /\ pc[c] = "e_generate"
    /\ \E ok \in BOOLEAN :
          SetFrame(c, [frame[c] EXCEPT
             !.generated = IF ok THEN "ok" ELSE "failed",
             !.ai_reply = GeneratedOrFallback(ok),
             !.status = "draft"])
    /\ Goto(c, "e_log")
    /\ UNCHANGED <<gmail_tokens, email_logs, now, issued, lastIns>>

\* lines 255-265: log the reply and return it
EmailLog(c) ==
    /\ pc[c] = "e_log"
    /\ email_logs' = InsertLog(email_logs,
                               LogRow(frame[c].payload, frame[c].ai_reply, frame[c].status))
    /\ SetFrame(c, [frame[c] EXCEPT
          !.result = Returned([status |-> frame[c].status,
                               reply |-> frame[c].ai_reply])])
    /\ Goto(c, "done")
    /\ UNCHANGED <<gmail_tokens, now, issued, lastIns>>

EmailNext ==
    \/ \E c \in Calls, payload \in EmailPayloads : EmailStart(c, payload)
    \/ \E c \in Calls : EmailGenerate(c)
    \/ \E c \in Calls : EmailLog(c)
    \/ \E c \in Calls : Finish(c)

EmailSpec == Init /\ [][EmailNext]_vars

\* One request at a time: sequential execution of the handlers.
Next ==
    \/ Tick
    \/ CallbackStart("h1")
    \/ CallbackExchange("h1")
    \/ CallbackExpiry("h1")
    \/ CallbackInsert("h1")
    \/ \E u \in UserEmails : SendStart("h1", u)
    \/ RefreshSelect("h1")
    \/ RefreshCheck("h1")
    \/ RefreshExchange("h1")
    \/ RefreshExpiry("h1")
    \/ RefreshInsert("h1")
    \/ SendPost("h1")
    \/ Finish("h1")

Spec == Init /\ [][Next]_vars

\* Two /gmail/send requests at a time: the host's request concurrency lets
\* the steps of two lifecycle-manager calls interleave in any order.
ConcNext ==
    \/ Tick
    \/ \E c \in Calls, u \in UserEmails : SendStart(c, u)
    \/ \E c \in Calls : RefreshSelect(c)
    \/ \E c \in Calls : RefreshCheck(c)
    \/ \E c \in Calls : RefreshExchange(c)
    \/ \E c \in Calls : RefreshExpiry(c)
    \/ \E c \in Calls : RefreshInsert(c)
    \/ \E c \in Calls : SendPost(c)
    \/ \E c \in Calls : Finish(c)

ConcSpec == Init /\ [][ConcNext]_vars

\* ------------------------------------------------------------ properties

\* handler c leaves the position label in this step
Moves(c, label) == pc[c] = label /\ pc'[c] # label

CountOf(store, user_email) == Cardinality(RowsOf(store, user_email))

\* the refresh exchange of handler c has answered with an access token
Refreshed(c) ==
    /\ frame[c].op = "send"
    /\ frame[c].new_tokens # Null
    /\ "access_token" \in DOMAIN frame[c].new_tokens

\* what C1 asks of one step of handler c
C1_Step(c) ==
    /\ Moves(c, "r_check") =>
          IF frame[c].record.expires_at * TicksPerSecond <= now
          THEN /\ pc'[c] = "r_post"
               /\ frame'[c].access_token = -1
               /\ frame'[c].result = Null
          ELSE /\ pc'[c] = "s_post"
               /\ frame'[c].access_token = frame[c].record.access_token
               /\ frame'[c].new_tokens = Null
               /\ frame'[c].data = Null
               /\ gmail_tokens' = gmail_tokens
               /\ issued' = issued
    /\ (frame[c].op = "send" /\ frame[c].access_token = -1
            /\ frame'[c].access_token # -1) =>
          \/ /\ pc[c] = "r_check"
             /\ frame[c].record.expires_at * TicksPerSecond > now
          \/ /\ frame[c].new_tokens # Null
             /\ frame[c].data # Null
             /\ frame[c].data.grant_type = "refresh_token"
\* C1: in refresh_gmail_token, when the latest record's expires_at is at or
\* before the clock (the boundary expires_at = now included) the call goes on
\* to the refresh exchange and has returned no token yet; when expires_at is
\* strictly after the clock it returns the record's access_token without an
\* exchange and without a store write; and a token is only ever returned
\* either that way or after the exchange has answered.
C1_RefreshIffExpired == [][\A c \in Calls : C1_Step(c)]_vars

\* C1 witness: a call whose record expired exactly at the clock reading of
\* the check stands before the refresh exchange, no token returned.
C1_Witness ==
    \E c \in Calls :
        /\ pc[c] = "r_post"
        /\ frame[c].record.expires_at * TicksPerSecond = now
        /\ now > 0
        /\ frame[c].access_token = -1

\* what C2 asks of one step of handler c
C2_Step(c) ==
    /\ Moves(c, "r_insert") =>
          /\ pc'[c] = "s_post"
          /\ \E row \in gmail_tokens' \ gmail_tokens :
                /\ gmail_tokens' = gmail_tokens \cup {row}
                /\ row.user_email = frame[c].user_email
                /\ row.access_token = frame[c].new_tokens.access_token
                /\ frame'[c].access_token = row.access_token
          /\ CountOf(gmail_tokens', frame[c].user_email)
                = CountOf(gmail_tokens, frame[c].user_email) + 1
    /\ (Moves(c, "r_post") /\ "access_token" \in DOMAIN frame'[c].new_tokens) =>
          pc'[c] = "r_time" /\ gmail_tokens' = gmail_tokens
    /\ Moves(c, "r_time") => pc'[c] = "r_insert" /\ gmail_tokens' = gmail_tokens
    /\ (Moves(c, "r_select") \/ Moves(c, "r_check") \/ Moves(c, "s_post")
            \/ Moves(c, "done")) => gmail_tokens' = gmail_tokens
\* C2: the insert of a successful refresh adds exactly one row, of the call's
\* identity, whose access_token is the provider's new one; every row that was
\* there stays as it was; the call returns that row's access_token; a
\* successful exchange always reaches the insert and no other step of the
\* call writes the store.
C2_RefreshAppendsOne == [][\A c \in Calls : C2_Step(c)]_vars

\* C2 witness: a refresh has returned; the store is what it was when the call
\* started plus the one row holding the returned token.
C2_Witness ==
    \E c \in Calls :
        /\ Refreshed(c) /\ pc[c] = "s_post"
        /\ frame[c].pre # {}
        /\ \E row \in gmail_tokens \ frame[c].pre :
              /\ gmail_tokens = frame[c].pre \cup {row}
              /\ row.access_token = frame[c].access_token

\* what C3 asks of one step of handler c
C3_Step(c) ==
    /\ (Moves(c, "r_post") /\ ~("access_token" \in DOMAIN frame'[c].new_tokens)) =>
          /\ pc'[c] = "done"
          /\ frame'[c].result =
                [kind |-> "raise", status_code |-> 400,
                 detail |-> frame'[c].new_tokens]
          /\ frame'[c].access_token = -1
          /\ gmail_tokens' = gmail_tokens
    /\ (Moves(c, "r_select") \/ Moves(c, "r_check")) => gmail_tokens' = gmail_tokens
    /\ (frame[c].op = "send" /\ Moves(c, "done")) => gmail_tokens' = gmail_tokens
\* C3: when the refresh response lacks access_token the call ends by raising
\* HTTPException 400 with the provider's payload as detail, returns no token,
\* and neither that step nor the steps before it write the store.
C3_FailedRefreshWritesNothing == [][\A c \in Calls : C3_Step(c)]_vars

\* C3 witness: a refresh was rejected; the call raised 400 and the store is
\* what it was when the call started.
C3_Witness ==
    \E c \in Calls :
        /\ frame[c].op = "send" /\ pc[c] = "done"
        /\ frame[c].new_tokens = [error |-> "invalid_grant"]
        /\ frame[c].result.kind = "raise"
        /\ frame[c].result.status_code = 400
        /\ gmail_tokens = frame[c].pre

\* what C4 asks of one step of handler c
C4_Step(c) ==
    /\ Moves(c, "r_select") =>
          IF \E q \in gmail_tokens : q.user_email = frame[c].user_email
          THEN /\ pc'[c] = "r_check"
               /\ frame'[c].record \in gmail_tokens
               /\ frame'[c].record.user_email = frame[c].user_email
               /\ \A q \in gmail_tokens :
                     q.user_email = frame[c].user_email
                        => q.created_at <= frame'[c].record.created_at
          ELSE pc'[c] = "done" /\ frame'[c].result.status_code = 404
    /\ (pc[c] \in {"r_check", "r_post", "r_time", "r_insert", "s_post"}
            /\ pc'[c] # "idle") => frame'[c].record = frame[c].record
    /\ Moves(c, "r_post") =>
          frame'[c].data.refresh_token = frame[c].record.refresh_token
    /\ (Moves(c, "r_check") /\ pc'[c] = "s_post") =>
          frame'[c].access_token = frame[c].record.access_token
\* C4: the record refresh_gmail_token reads is a row of the requested
\* identity whose created_at no other row of that identity exceeds; the call
\* keeps that record to the end, posts its refresh_token in the exchange and,
\* when it is still valid, returns its access_token; 404 only when the
\* identity has no row.
C4_LatestRecordDecides == [][\A c \in Calls : C4_Step(c)]_vars

\* C4 witness: the identity has two rows, a row of another identity is newer
\* than both, and a call has read the newer of the identity's two.
C4_Witness ==
    \E c \in Calls :
        /\ pc[c] = "r_check"
        /\ CountOf(gmail_tokens, frame[c].user_email) >= 2
        /\ \E q \in gmail_tokens :
              /\ q.user_email # frame[c].user_email
              /\ q.created_at > frame[c].record.created_at
        /\ \E q \in gmail_tokens :
              /\ q.user_email = frame[c].user_email
              /\ q.created_at < frame[c].record.created_at

\* C5: the row a successful refresh inserts carries the old record's
\* token_type and scope, and its refresh_token is the provider's new one when
\* the refresh response contains a refresh_token, the old record's otherwise.
C5_RefreshTokenCarriedOrRotated ==
    \A c \in Calls :
        (Refreshed(c) /\ pc[c] = "s_post") =>
            \A row \in gmail_tokens :
                row.access_token = frame[c].access_token =>
                    /\ row.token_type = frame[c].record.token_type
                    /\ row.scope = frame[c].record.scope
                    /\ row.refresh_token =
                          IF "refresh_token" \in DOMAIN frame[c].new_tokens
                          THEN frame[c].new_tokens.refresh_token
                          ELSE frame[c].record.refresh_token

\* what C6 asks of one step of handler c
C6_Step(c) ==
    /\ Moves(c, "e_generate") =>
          /\ pc'[c] = "e_log"
          /\ email_logs' = email_logs
          /\ frame'[c].result = Null
          /\ frame'[c].generated = "failed" =>
                /\ frame'[c].ai_reply = "There was an error generating a reply."
                /\ frame'[c].status = "draft"
    /\ Moves(c, "e_log") =>
          /\ pc'[c] = "done"
          /\ Len(email_logs') = Len(email_logs) + 1
          /\ SubSeq(email_logs', 1, Len(email_logs)) = email_logs
          /\ email_logs'[Len(email_logs')].ai_reply = frame[c].ai_reply
          /\ email_logs'[Len(email_logs')].status = frame[c].status
          /\ email_logs'[Len(email_logs')].sender = frame[c].payload.sender
          /\ frame'[c].result =
                [kind |-> "return",
                 value |-> [status |-> frame[c].status, reply |-> frame[c].ai_reply]]
    /\ (frame[c].op = "email" /\ Moves(c, "done")) => email_logs' = email_logs
\* C6: process_email inserts exactly one email_logs row per call, after the
\* completion call whether it succeeded or raised; when it raised, the logged
\* and the returned reply are the fallback string and the status is "draft";
\* the call returns and never raises.
C6_WebhookLogsOnce == [][\A c \in Calls : C6_Step(c)]_vars

\* C6 witness: the completion call raised; the call has logged and returned
\* the fallback reply as a draft.
C6_Witness ==
    \E c \in Calls :
        /\ frame[c].op = "email" /\ pc[c] = "done"
        /\ frame[c].generated = "failed"
        /\ frame[c].result.kind = "return"
        /\ frame[c].result.value.reply = "There was an error generating a reply."
        /\ frame[c].result.value.status = "draft"
        /\ \E i \in 1..Len(email_logs) :
              /\ email_logs[i].ai_reply = "There was an error generating a reply."
              /\ email_logs[i].sender = frame[c].payload.sender

\* C7: send_gmail_message raises the send error with the provider's payload
\* exactly when the mail provider's status is not 2xx; on every 2xx status it
\* returns the provider's response.
C7_SendFailsIffNon2xx ==
    \A c \in Calls :
        (frame[c].op = "send" /\ frame[c].response # Null) =>
            IF frame[c].response.status_code \in 200..299
            THEN /\ frame[c].result.kind = "return"
                 /\ frame[c].result.value.response = frame[c].response.json
            ELSE /\ frame[c].result.kind = "raise"
                 /\ frame[c].result.detail = frame[c].response.json

\* two calls for one identity have both found their latest record expired,
\* both exchanges have succeeded and both calls have returned from
\* refresh_gmail_token
C8_Raced(c1, c2) ==
    /\ c1 # c2
    /\ Refreshed(c1) /\ Refreshed(c2)
    /\ frame[c1].user_email = frame[c2].user_email
    /\ pc[c1] \in {"s_post", "done"} /\ pc[c2] \in {"s_post", "done"}

\* the rows of gmail_tokens that hold the token handler c returned
C8_RowsBy(c) ==
    {r \in gmail_tokens : r.access_token = frame[c].access_token}

\* C8 (as amended): two concurrent calls for one identity that both found the
\* latest record expired and whose exchanges both succeeded: each has added
\* exactly one row, of that identity, holding the token it returned, and the
\* two rows differ; every row either call found when it started is still
\* there; when both found the same record, the rows newer than it are exactly
\* those two; the latest row is one of the two and expires at int(t) +
\* expires_in, after the clock reading t at which its call computed it.
C8_ConcurrentRefreshBenign ==
    \A c1, c2 \in Calls :
        C8_Raced(c1, c2) =>
            LET S == {r \in gmail_tokens : r.user_email = frame[c1].user_email}
                Old == {r \in S : r.created_at <= frame[c1].record.created_at}
            IN /\ \A c \in {c1, c2} :
                     /\ frame[c].pre \subseteq gmail_tokens
                     /\ frame[c].record \in gmail_tokens
                     /\ frame[c].access_token = frame[c].new_tokens.access_token
                     /\ Cardinality(C8_RowsBy(c)) = 1
                     /\ C8_RowsBy(c) \subseteq S \ frame[c].pre
               /\ C8_RowsBy(c1) # C8_RowsBy(c2)
               /\ frame[c1].record = frame[c2].record =>
                     /\ S \ Old = C8_RowsBy(c1) \cup C8_RowsBy(c2)
                     /\ Cardinality(S) = Cardinality(Old) + 2
               /\ \E last \in C8_RowsBy(c1) \cup C8_RowsBy(c2) :
                     /\ \A q \in S : q.created_at <= last.created_at
                     /\ \E c \in {c1, c2} :
                           /\ last.access_token = frame[c].new_tokens.access_token
                           /\ last.expires_at =
                                 (frame[c].t \div TicksPerSecond)
                                    + frame[c].new_tokens.expires_in
                           /\ last.expires_at * TicksPerSecond > frame[c].t

\* the latest row of the identity of handler c is unexpired at the clock
C8_LatestUnexpired(c) ==
    \E last \in gmail_tokens :
        /\ last.user_email = frame[c].user_email
        /\ \A q \in gmail_tokens :
              q.user_email = frame[c].user_email => q.created_at <= last.created_at
        /\ last.expires_at * TicksPerSecond > now

\* C8 (as claimed): as above, and the record that is latest when the second
\* of the two calls returns from refresh_gmail_token is unexpired then.
C8_LatestUnexpiredAfterwards ==
    /\ []C8_ConcurrentRefreshBenign
    /\ [][\A c1, c2 \in Calls :
            (~C8_Raced(c1, c2) /\ C8_Raced(c1, c2)') => C8_LatestUnexpired(c1)']_vars

\* C8 witness: two calls that started on the same store and read the same
\* expired record have both refreshed and returned; the store has two more
\* rows.
C8_Witness ==
    \E c1, c2 \in Calls :
        /\ C8_Raced(c1, c2)
        /\ frame[c1].record = frame[c2].record
        /\ pc[c1] = "done" /\ pc[c2] = "done"
        /\ frame[c1].pre = frame[c2].pre
        /\ Cardinality(gmail_tokens) = Cardinality(frame[c1].pre) + 2

\* what C9 asks of one step of handler c
C9_Step(c) ==
    /\ Moves(c, "cb_post") =>
          /\ gmail_tokens' = gmail_tokens
          /\ IF "access_token" \in DOMAIN frame'[c].new_tokens
             THEN pc'[c] = "cb_time"
             ELSE /\ pc'[c] = "done"
                  /\ frame'[c].result =
                        [kind |-> "raise", status_code |-> 400,
                         detail |-> frame'[c].new_tokens]
    /\ Moves(c, "cb_time") =>
          /\ pc'[c] = "cb_insert"
          /\ gmail_tokens' = gmail_tokens
          /\ frame'[c].t = now
    /\ Moves(c, "cb_insert") =>
          /\ pc'[c] = "done"
          /\ frame'[c].result.kind = "return"
          /\ \E row \in gmail_tokens' \ gmail_tokens :
                /\ gmail_tokens' = gmail_tokens \cup {row}
                /\ row.user_email = "prod.tkmusic@gmail.com"
                /\ row.access_token = frame[c].new_tokens.access_token
                /\ row.refresh_token = frame[c].new_tokens.refresh_token
                /\ row.expires_at =
                      (frame[c].t \div TicksPerSecond) + frame[c].new_tokens.expires_in
    /\ (frame[c].op = "callback" /\ Moves(c, "done")) => gmail_tokens' = gmail_tokens
\* C9: gmail_callback, when the code exchange answers with an access_token,
\* inserts exactly one row, whose expires_at is int(clock at issue) +
\* expires_in and whose tokens are the provider's; when the answer has no
\* access_token it raises HTTPException 400 with the provider's payload and
\* writes nothing.
C9_CallbackPersistsOne == [][\A c \in Calls : C9_Step(c)]_vars

\* C9 witness: a callback issued in the middle of a second has saved its row,
\* which expires less than expires_in after the issue, int() having truncated.
C9_Witness ==
    \E c \in Calls :
        /\ frame[c].op = "callback" /\ pc[c] = "done"
        /\ frame[c].result.kind = "return"
        /\ frame[c].t % TicksPerSecond # 0
        /\ \E row \in gmail_tokens \ frame[c].pre :
              /\ gmail_tokens = frame[c].pre \cup {row}
              /\ row.expires_at * TicksPerSecond
                    < frame[c].t + TicksPerSecond * frame[c].new_tokens.expires_in

\* what C10 asks of one step of handler c
C10_Step(c) ==
    LET last == lastIns[frame[c].user_email]
    IN (frame[c].op = "send" /\ last.kind = "refresh") =>
          /\ Moves(c, "r_select") =>
                pc'[c] = "r_check" /\ frame'[c].record = last.row
          /\ (Moves(c, "r_check") /\ frame[c].record = last.row
                /\ last.d > 0
                /\ now < TicksPerSecond * ((last.t \div TicksPerSecond) + last.d)) =>
                /\ pc'[c] = "s_post"
                /\ frame'[c].access_token = last.row.access_token
                /\ frame'[c].new_tokens = Null
                /\ gmail_tokens' = gmail_tokens
                /\ issued' = issued
\* C10: when the last insertion for an identity was a refresh made at clock t
\* with expires_in d, a later call for that identity reads that row as the
\* latest and, when its check runs at a time strictly before int(t) + d,
\* returns the token of that refresh with no exchange and no store write.
C10_RefreshedTokenReused == [][\A c \in Calls : C10_Step(c)]_vars

\* C10 witness: a call made later than a refresh, within the lifetime of its
\* token, has returned that token without an exchange.
C10_Witness ==
    \E c \in Calls :
        /\ frame[c].op = "send" /\ pc[c] = "s_post"
        /\ lastIns[frame[c].user_email].kind = "refresh"
        /\ frame[c].record = lastIns[frame[c].user_email].row
        /\ frame[c].new_tokens = Null
        /\ frame[c].access_token = lastIns[frame[c].user_email].row.access_token
        /\ now > lastIns[frame[c].user_email].t
        /\ CountOf(gmail_tokens, frame[c].user_email) >= 2

====
